---- MODULE Spec2Model ----
(***************************************************************************)
(* ffmpeg-json: supervision of an ffmpeg subprocess.                       *)
(*                                                                         *)
(* The model follows src/main.go: the newest main() (lines 86-217), its    *)
(* helpers (lines 219-285) and the newest sampler/decoder (lines 688-847). *)
(*                                                                         *)
(* Text is modelled at the level of lexemes: a line is a sequence whose    *)
(* elements are words (strings without blanks or equals signs), the blank  *)
(* SP and the equals sign EQ.  split, trim, demangle, HasPrefix and        *)
(* hastext are computed on these sequences the way the Go code computes    *)
(* them on bytes.                                                          *)
(*                                                                         *)
(* Floating point fields (Q, Bitrate, Speed) are kept in hundredths.       *)
(*                                                                         *)
(* Assumption on the external logging library (github.com/as/log): a       *)
(* line of level Fatal ends the process with exit status 1 when printed.   *)
(***************************************************************************)
EXTENDS Integers, Sequences, FiniteSets, TLC

VARIABLES
    \* configuration of the process chain (environment, main.go:21-82)
    maxretry, hwframesmax, maxstall, maxdup, targetOutputs, gpus,
    \* the running (innermost) process
    args, retry, hwframesptr, hwframes,
    hwframesbug, vramoverflow, filterbug, gpuwarns,
    emitted, execpc, execerr,
    wpos, s0, statc, statcClosed,
    prior, nstall, mainpc, logged, cancelled, decided,
    \* the chain of processes
    parents, exited, childexit,
    \* inputs and result of an isolated Decode call
    dprev, dline, dcur, dcalls,
    \* inputs and result of an isolated lastline call, and of a progress call
    tcall, pcall

vars == <<maxretry, hwframesmax, maxstall, maxdup, targetOutputs, gpus,
          args, retry, hwframesptr, hwframes, hwframesbug, vramoverflow,
          filterbug, gpuwarns, emitted, execpc, execerr, wpos, s0, statc,
          statcClosed, prior, nstall, mainpc, logged, cancelled, decided,
          parents, exited, childexit, dprev, dline, dcur, dcalls,
          tcall, pcall>>

cfgvars == <<maxretry, hwframesmax, maxstall, maxdup, targetOutputs, gpus>>
decvars == <<dprev, dline, dcur, dcalls, tcall, pcall>>

-----------------------------------------------------------------------------
(* Text helpers *)

SP == " "
EQ == "="

\* "w1 w2 ... wn" as a lexeme sequence
RECURSIVE Words(_)
Words(ws) == IF Len(ws) <= 1 THEN ws ELSE <<ws[1], SP>> \o Words(Tail(ws))

\* "k=v"
KV(k, v) == <<k, EQ, v>>

\* words that contain another word as a proper substring
Inside == { <<"h264_nvenc", "nvenc">>, <<"Errors", "Error">> }

LexHas(w, s) == w = s \/ <<w, s>> \in Inside

\* strings.HasPrefix
HasPrefix(line, p) == Len(line) >= Len(p) /\ SubSeq(line, 1, Len(p)) = p

\* strings.Contains
hastext(line, sub) ==
    \E i \in 1..(Len(line) - Len(sub) + 1) :
        \A j \in 1..Len(sub) : LexHas(line[i + j - 1], sub[j])

\* strings.Split: the pieces of s between the separators sep
RECURSIVE split(_, _)
split(s, sep) ==
    IF \A i \in 1..Len(s) : s[i] # sep
    THEN <<s>>
    ELSE LET i == CHOOSE k \in 1..Len(s) :
                      s[k] = sep /\ \A m \in 1..(k - 1) : s[m] # sep
         IN  <<SubSeq(s, 1, i - 1)>> \o split(SubSeq(s, i + 1, Len(s)), sep)

\* strings.TrimSpace
RECURSIVE trim(_)
trim(s) ==
    IF s = <<>> THEN s
    ELSE IF s[1] = SP THEN trim(Tail(s))
    ELSE IF s[Len(s)] = SP THEN trim(SubSeq(s, 1, Len(s) - 1))
    ELSE s

RECURSIVE joinTrimmed(_)
joinTrimmed(parts) ==
    IF Len(parts) = 0 THEN <<>>
    ELSE IF Len(parts) = 1 THEN trim(parts[1])
    ELSE trim(parts[1]) \o <<SP>> \o joinTrimmed(Tail(parts))

\* demangle: the pieces between equals signs, trimmed, joined by one blank
demangle(line) == joinTrimmed(split(line, EQ))

-----------------------------------------------------------------------------
(* State and Decode *)

ZeroState ==
    [Frame |-> 0, FPS |-> 0, Q |-> 0, Time |-> "", Size |-> 0,
     Bitrate |-> 0, Dup |-> 0, Drop |-> 0, Speed |-> 0]

\* fmt.Sscan into an int: <<n>> when the word starts with a number, <<>> when
\* it does not (the destination is then left alone)
ScanInt(w) ==
    CASE w = "0" -> <<0>>
      [] w = "1" -> <<1>>
      [] w = "2" -> <<2>>
      [] w = "3" -> <<3>>
      [] w = "2kB" -> <<2>>
      [] OTHER -> <<>>

\* fmt.Sscan into a float64, in hundredths
ScanFloat(w) ==
    IF ScanInt(w) = <<>> THEN <<>> ELSE <<100 * ScanInt(w)[1]>>

IntKeys == {"frame", "fps", "size", "Lsize", "dup", "drop"}
FloatKeys == {"bitrate", "q", "speed"}

\* symtab: the field a key is scanned into
symtab(k) ==
    CASE k = "frame" -> "Frame"
      [] k = "fps" -> "FPS"
      [] k = "size" -> "Size"
      [] k = "time" -> "Time"
      [] k = "Lsize" -> "Size"
      [] k = "bitrate" -> "Bitrate"
      [] k = "dup" -> "Dup"
      [] k = "drop" -> "Drop"
      [] k = "q" -> "Q"
      [] k = "speed" -> "Speed"
      [] OTHER -> ""

\* fmt.Sscan(trim(val), dst) for the key's field
ScanField(s, key, val) ==
    LET k == trim(key)
        v == trim(val)
        f == IF Len(k) = 1 THEN symtab(k[1]) ELSE ""
        r == IF Len(v) # 1 THEN <<>>
             ELSE IF k[1] \in IntKeys THEN ScanInt(v[1])
             ELSE IF k[1] \in FloatKeys THEN ScanFloat(v[1])
             ELSE <<v[1]>>
    IN  IF f = "" \/ r = <<>> THEN s ELSE [s EXCEPT ![f] = r[1]]

\* for i := 1; i < len(a); i += 2 (pairs (a[i-1], a[i]), 0-based)
RECURSIVE ScanPairs(_, _, _)
ScanPairs(s, a, i) ==
    IF i + 1 > Len(a) THEN s
    ELSE ScanPairs(ScanField(s, a[i], a[i + 1]), a, i + 2)

\* round100: math.Round(f*100)/100 of a value held in hundredths, h = f*100
round100(h) == (h * 100) \div 100

FramePrefix == <<"frame", EQ>>
SizePrefix == <<"size", EQ>>

RecognizedAnywhere(line) == hastext(line, FramePrefix) \/ hastext(line, SizePrefix)

Recognized(line) == HasPrefix(line, FramePrefix) \/ HasPrefix(line, SizePrefix)

Decode(s, line) ==
    IF ~Recognized(line) THEN s
    ELSE LET a == split(demangle(line), SP)
             t == ScanPairs(s, a, 1)
         IN  [t EXCEPT !.FPS = @ * targetOutputs,
                       !.Speed = (@ * round100(100 * targetOutputs)) \div 100]

-----------------------------------------------------------------------------
(* Error tail (lastline) and the condition-flag signatures *)

MatchAt(line, sub, i) ==
    /\ i >= 1
    /\ i + Len(sub) - 1 <= Len(line)
    /\ SubSeq(line, i, i + Len(sub) - 1) = sub

\* "^[eE]rror"
errLine(line) ==
    Len(line) >= 1 /\ (LexHas(line[1], "Error") \/ line[1] = "error")

\* "Impossible to open.+"
errImpossible(line) ==
    LET p == Words(<<"Impossible", "to", "open">>)
    IN  \E i \in 1..Len(line) : MatchAt(line, p, i) /\ i + Len(p) - 1 < Len(line)

\* ".+Invalid data found when processing input"
errInvalid(line) ==
    LET p == Words(<<"Invalid", "data", "found", "when", "processing", "input">>)
    IN  \E i \in 2..Len(line) : MatchAt(line, p, i)

\* "^[Ss]tream map.+matches no stream"
errNoStream(line) ==
    LET q == Words(<<"matches", "no", "stream">>)
    IN  /\ \/ HasPrefix(line, Words(<<"Stream", "map">>))
           \/ HasPrefix(line, Words(<<"stream", "map">>))
        /\ \E i \in 5..Len(line) : MatchAt(line, q, i)

errCk(line) ==
    errLine(line) \/ errImpossible(line) \/ errInvalid(line) \/ errNoStream(line)

\* lastline as it stood before first-match-wins: the last matching line, with
\* the separator in front of it when it is not the first
RECURSIVE lastlineOld(_)
lastlineOld(lines) ==
    IF lines = <<>> THEN <<>>
    ELSE LET before == lastlineOld(SubSeq(lines, 1, Len(lines) - 1))
             ln == lines[Len(lines)]
         IN  IF ~errCk(ln) THEN before
             ELSE IF before = <<>> THEN ln ELSE <<",", SP>> \o ln

\* lastline: the first captured line that matches a pattern of errCk, the
\* empty line when there is none
RECURSIVE lastline(_)
lastline(lines) ==
    IF lines = <<>> THEN <<>>
    ELSE IF errCk(Head(lines)) THEN Head(lines)
    ELSE lastline(Tail(lines))

NoSurfaces == Words(<<"No", "decoder", "surfaces", "left">>)

\* gpuOOM; n is the number of GPUs queryGPU lists
gpuOOM(s, n) ==
    \/ hastext(s, <<"nvenc">>) /\ hastext(s, Words(<<"OpenEncodeSessionEx", "failed">>))
    \/ hastext(s, <<"nvenc">>) /\ hastext(s, Words(<<"out", "of", "memory">>))
    \/ hastext(s, <<"CUDA_ERROR_OUT_OF_MEMORY">>)
    \/ hastext(s, <<"CUDA_ERROR_NO_DEVICE">>) /\ n # 0

\* gpuOOM's deferred function: on an out-of-memory line one warning is logged
\* for every GPU queryGPU lists
gpuOOMWarns(s, n) == IF gpuOOM(s, n) THEN n ELSE 0

-----------------------------------------------------------------------------
(* Arguments *)

HwFlag == "-extra_hw_frames"

\* strconv.Atoi, the error dropped: 0 for a word that is no decimal integer
Atoi(w) ==
    CASE w = "0" -> 0
      [] w = "1" -> 1
      [] w = "2" -> 2
      [] w = "02" -> 2
      [] w = "3" -> 3
      [] w = "4" -> 4
      [] w = "5" -> 5
      [] OTHER -> 0

\* fmt.Sprint of a small non-negative int
Sprint(n) ==
    CASE n = 0 -> "0"
      [] n = 1 -> "1"
      [] n = 2 -> "2"
      [] n = 3 -> "3"
      [] n = 4 -> "4"
      [] n = 5 -> "5"
      [] n = 6 -> "6"
      [] OTHER -> "many"

\* main.go:115-121 over os.Args (a[1] is the program name): the position of
\* the value after the last -extra_hw_frames, 0 (nil) when there is none
scanPtr(a) ==
    LET hits == { j \in 2..Len(a) : a[j - 1] = HwFlag }
    IN  IF hits = {} THEN 0 ELSE CHOOSE j \in hits : \A k \in hits : k <= j

scanHwframes(a) == IF scanPtr(a) = 0 THEN 0 ELSE Atoi(a[scanPtr(a)])

\* init(): a zero (or unset) environment value takes the default
orDefault(v, d) == IF v = 0 THEN d ELSE v

DefaultHwframesmax == 64
DefaultMaxstall == 1000
DefaultMaxretry == 60
StatcCap == 1000

-----------------------------------------------------------------------------
(* Bounds and inputs *)

MaxLines == 2        \* lines one ffmpeg run writes to its standard error
MaxBudget == 2       \* largest MAXRETRY drawn
MaxCeiling == 2      \* largest MAXEXTRAHWFRAMES drawn
MaxRetryEnv == 1     \* largest RETRY the first process is started with
MaxWatchLines == 3   \* lines fed to the sampler on its own
MaxDecodeCalls == 2  \* successive Decode calls on their own

LProg == KV("frame", "1") \o <<SP>> \o KV("size", "1")
LHw == NoSurfaces
LVram == <<"CUDA_ERROR_OUT_OF_MEMORY">>
LErr == Words(<<"Error", "opening", "file">>)

SupLines == {LProg, LHw, LVram, LErr}

\* progress lines as ffmpeg writes them, and lines that only look like them
WSize2 == KV("frame", "1") \o <<SP>> \o KV("size", "2")
WFrame2 == KV("frame", "2")
WSizeOnly == KV("size", "2") \o <<SP>> \o KV("time", "00:00:01.00")
WFull == KV("frame", "2") \o <<SP>> \o KV("fps", "1") \o <<SP>>
           \o KV("size", "1") \o <<SP>> \o KV("dup", "1") \o <<SP>>
           \o KV("speed", "1")
WPadded == <<"frame", EQ, SP, SP, "3", SP, "fps", EQ, SP, "2", SP, "q", EQ,
             "N/A", SP, "Lsize", EQ, SP, SP, "2kB">>
WBlankFirst == <<SP>> \o KV("frame", "3") \o <<SP>> \o KV("size", "3")
WNoEq == Words(<<"frame", "3", "size", "3">>)

WatchLines ==
    {LProg, WSize2, WFrame2, WSizeOnly, WFull, WPadded, WBlankFirst, LErr}

DecodeLines == WatchLines \cup {WNoEq, LHw}

ArgVectors ==
    { <<"ffmpeg-json", "-i", "in", "out">>,
      <<"ffmpeg-json", HwFlag, "0", "-i", "in", "out">>,
      <<"ffmpeg-json", HwFlag, "02", "-i", "in", "out">>,
      <<"ffmpeg-json", HwFlag, "x", HwFlag, "1", "out">> }

-----------------------------------------------------------------------------
(* One process: its state when the supervising loop is entered *)

Live == exited = -1

\* no lastline call and no progress call made yet
NoTailCall == [made |-> FALSE, captured |-> <<>>, msg |-> <<>>]
NoProgressCall ==
    [made |-> FALSE, s |-> ZeroState, max |-> 0, frames |-> 0,
     prog |-> <<"num", 0>>, perc |-> 0]

\* what the completion handler read when it ran: err, lasterr and the flags
Undecided ==
    [taken |-> FALSE, execerr |-> FALSE, lasterr |-> <<>>,
     vramoverflow |-> FALSE, hwframesbug |-> FALSE]

StartProcess(a, r) ==
    /\ args' = a
    /\ retry' = r
    /\ hwframesptr' = scanPtr(a)
    /\ hwframes' = scanHwframes(a)
    /\ hwframesbug' = FALSE
    /\ vramoverflow' = FALSE
    /\ filterbug' = FALSE
    /\ gpuwarns' = 0
    /\ emitted' = <<>>
    /\ execpc' = "copy"
    /\ execerr' = FALSE
    /\ wpos' = 0
    /\ s0' = ZeroState
    /\ statc' = <<>>
    /\ statcClosed' = FALSE
    /\ prior' = ZeroState
    /\ nstall' = 0
    /\ mainpc' = "loop"
    /\ logged' = <<>>
    /\ cancelled' = FALSE
    /\ decided' = Undecided
    /\ exited' = -1

procvars == <<args, retry, hwframesptr, hwframes, hwframesbug, vramoverflow,
              filterbug, gpuwarns, emitted, execpc, execerr, wpos, s0, statc,
              statcClosed, prior, nstall, mainpc, logged, cancelled,
              decided>>

Init ==
    /\ maxretry \in { orDefault(v, DefaultMaxretry) : v \in 1..MaxBudget }
    /\ hwframesmax \in { orDefault(v, DefaultHwframesmax) : v \in 1..MaxCeiling }
    /\ maxstall \in { orDefault(v, DefaultMaxstall) : v \in {1} }
    /\ maxdup = 0
    /\ targetOutputs = orDefault(0, 1)
    /\ gpus = 0
    /\ args \in ArgVectors
    /\ retry \in 0..MaxRetryEnv
    /\ hwframesptr = scanPtr(args)
    /\ hwframes = scanHwframes(args)
    /\ hwframesbug = FALSE
    /\ vramoverflow = FALSE
    /\ filterbug = FALSE
    /\ gpuwarns = 0
    /\ emitted = <<>>
    /\ execpc = "copy"
    /\ execerr = FALSE
    /\ wpos = 0
    /\ s0 = ZeroState
    /\ statc = <<>>
    /\ statcClosed = FALSE
    /\ prior = ZeroState
    /\ nstall = 0
    /\ mainpc = "loop"
    /\ logged = <<>>
    /\ cancelled = FALSE
    /\ decided = Undecided
    /\ parents = <<>>
    /\ exited = -1
    /\ childexit = -1
    /\ dprev = ZeroState
    /\ dline = <<>>
    /\ dcur = ZeroState
    /\ dcalls = 0
    /\ tcall = NoTailCall
    /\ pcall = NoProgressCall

-----------------------------------------------------------------------------
(* The execution task: go func() { donec <- ffmpeg(...); statw.Close() } *)

\* ffmpeg(): io.Copy passes one more line of the subprocess to fd2 and statw
FfmpegWrite(L, max) ==
    /\ Live
    /\ execpc = "copy"
    /\ Len(emitted) < max
    /\ \E ln \in L : emitted' = Append(emitted, ln)
    /\ UNCHANGED <<cfgvars, decvars, decided, args, retry, hwframesptr, hwframes,
                   hwframesbug, vramoverflow, filterbug, gpuwarns, execpc, execerr,
                   wpos, s0, statc, statcClosed, prior, nstall, mainpc,
                   logged, cancelled, parents, exited, childexit>>

\* ffmpeg() returns: cmd.Start, io.Copy or cmd.Wait gave an error, or none
FfmpegExit ==
    /\ Live
    /\ execpc = "copy"
    /\ execerr' \in BOOLEAN
    /\ execpc' = "send"
    /\ UNCHANGED <<cfgvars, decvars, decided, args, retry, hwframesptr, hwframes,
                   hwframesbug, vramoverflow, filterbug, gpuwarns, emitted,
                   wpos, s0, statc, statcClosed, prior, nstall, mainpc,
                   logged, cancelled, parents, exited, childexit>>

\* statw.Close(), once the send on donec has been received
StatwClose ==
    /\ Live
    /\ execpc = "close"
    /\ execpc' = "end"
    /\ UNCHANGED <<cfgvars, decvars, decided, args, retry, hwframesptr, hwframes,
                   hwframesbug, vramoverflow, filterbug, gpuwarns, emitted, execerr,
                   wpos, s0, statc, statcClosed, prior, nstall, mainpc,
                   logged, cancelled, parents, exited, childexit>>

-----------------------------------------------------------------------------
(* The stream-watching task: watchState *)

watchDecodePrev(prev, line) == Decode(prev, line)

\* the sample a line is decoded into: State{}.Decode(sc.Text())
watchDecode(prev, line) == Decode(ZeroState, line)

SkippedEither(s1, ref) == s1.Frame <= ref.Frame \/ s1.Size <= ref.Size

\* the line is skipped (continue) when neither frame nor size advanced
Skipped(s1, ref) == s1.Frame <= ref.Frame /\ s1.Size <= ref.Size

setFlagLast(flag, hit) == hit

\* if <signature found> { flag = true }
setFlag(flag, hit) == flag \/ hit

\* one iteration of the scan loop
WatchLine ==
    /\ Live
    /\ wpos < Len(emitted)
    /\ LET ln == emitted[wpos + 1]
           s1 == watchDecode(s0, ln)
       IN  /\ hwframesbug' = setFlag(hwframesbug, hastext(ln, NoSurfaces))
           /\ vramoverflow' = setFlag(vramoverflow, gpuOOM(ln, gpus))
           /\ gpuwarns' = gpuwarns + gpuOOMWarns(ln, gpus)
           /\ IF Skipped(s1, s0)
              THEN UNCHANGED <<statc, s0>>
              ELSE /\ Len(statc) < StatcCap
                   /\ statc' = Append(statc, s1)
                   /\ s0' = s1
    /\ wpos' = wpos + 1
    /\ UNCHANGED <<cfgvars, decvars, decided, args, retry, hwframesptr, hwframes,
                   filterbug, emitted, execpc, execerr, statcClosed,
                   prior, nstall, mainpc, logged, cancelled, parents,
                   exited, childexit>>

\* the scanner reaches the end of the closed pipe: defer close(state)
WatchEOF ==
    /\ Live
    /\ wpos = Len(emitted)
    /\ execpc = "end"
    /\ ~statcClosed
    /\ statcClosed' = TRUE
    /\ UNCHANGED <<cfgvars, decvars, decided, args, retry, hwframesptr, hwframes,
                   hwframesbug, vramoverflow, filterbug, gpuwarns, emitted, execpc,
                   execerr, wpos, s0, statc, prior, nstall, mainpc, logged,
                   cancelled, parents, exited, childexit>>

-----------------------------------------------------------------------------
(* The supervising loop: for statc != nil { select { ... } } *)

exitErrNoTail == execerr

\* err != nil after lines 147-150: ffmpeg returned an error, or it returned
\* none and lastline found an error line in the captured output
exitErr == execerr \/ lastline(emitted) # <<>>

budgetSpentLate(r, m) == r > m

\* if retry >= maxretry { ln.Fatal()... }
budgetSpent(r, m) == r >= m

hwRuleAtCeiling(bug, n, m) == bug /\ n <= m

\* if hwframesbug && hwframes < hwframesmax
hwRule(bug, n, m) == bug /\ n < m

DecisionFlagsFirst ==
    IF ~exitErr /\ ~vramoverflow /\ ~hwframesbug THEN "done"
    ELSE IF vramoverflow
         THEN IF budgetSpent(retry, maxretry) THEN "maxretry" ELSE "retry_vram"
    ELSE IF hwRule(hwframesbug, hwframes, hwframesmax)
         THEN IF hwframesptr = 0 THEN "panic" ELSE "retry_hw"
    ELSE "failed"

DecisionHwFirst ==
    IF ~exitErr THEN "done"
    ELSE IF hwRule(hwframesbug, hwframes, hwframesmax)
         THEN IF hwframesptr = 0 THEN "panic" ELSE "retry_hw"
    ELSE IF vramoverflow
         THEN IF budgetSpent(retry, maxretry) THEN "maxretry" ELSE "retry_vram"
    ELSE "failed"

\* the branch the completion handler takes (lines 151-192)
Decision ==
    IF ~exitErr THEN "done"
    ELSE IF vramoverflow
         THEN IF budgetSpent(retry, maxretry) THEN "maxretry" ELSE "retry_vram"
    ELSE IF hwRule(hwframesbug, hwframes, hwframesmax)
         THEN IF hwframesptr = 0 THEN "panic" ELSE "retry_hw"
    ELSE "failed"

hwArgsFlagSlot(a, ptr, n) == [a EXCEPT ![ptr - 1] = Sprint(n)]

\* the argument vector the child is started with
hwArgs(a, ptr, n) == [a EXCEPT ![ptr] = Sprint(n)]

childRetrySame(r) == r

\* the retry counter doretry hands to the child: retry++, RETRY=<retry>
childRetry(r) == r + 1

Frame(rule) ==
    [rule |-> rule, retry |-> retry, args |-> args, hwframes |-> hwframes]

Snapshot ==
    [taken |-> TRUE, execerr |-> execerr, lasterr |-> lastline(emitted),
     vramoverflow |-> vramoverflow, hwframesbug |-> hwframesbug]

\* doretry(): the process starts a copy of itself and waits for it
doretry(rule, a) ==
    /\ parents' = Append(parents, Frame(rule))
    /\ StartProcess(a, childRetry(retry))
    /\ UNCHANGED <<cfgvars, decvars, childexit>>

\* a line of level Fatal, or a run-time panic: the process ends with status
Die(event, status) ==
    /\ logged' = Append(logged, event)
    /\ exited' = status
    /\ decided' = Snapshot
    /\ UNCHANGED <<cfgvars, decvars, args, retry, hwframesptr,
                   hwframesbug, vramoverflow, filterbug, gpuwarns, emitted, execpc,
                   execerr, wpos, s0, statc, statcClosed, prior, nstall,
                   mainpc, parents, childexit>>

\* case err := <-donec
MainDone ==
    /\ Live
    /\ mainpc = "loop"
    /\ execpc = "send"
    /\ CASE Decision = "done" ->
              /\ logged' = Append(logged, "done")
              /\ execpc' = "close"
              /\ decided' = Snapshot
              /\ UNCHANGED <<cfgvars, decvars, args, retry, hwframesptr,
                             hwframes, hwframesbug, vramoverflow, filterbug, gpuwarns,
                             emitted, execerr, wpos, s0, statc, statcClosed,
                             prior, nstall, mainpc, cancelled, parents,
                             exited, childexit>>
         [] Decision = "maxretry" ->
              Die("maxretry", 1) /\ UNCHANGED <<hwframes, cancelled>>
         [] Decision = "retry_vram" ->
              doretry("vram", args)
         [] Decision = "retry_hw" ->
              doretry("hw", hwArgs(args, hwframesptr, hwframes + 1))
         [] Decision = "panic" ->
              \* *hwframesptr = ... with hwframesptr == nil
              Die("panic", 2) /\ hwframes' = hwframes + 1 /\ UNCHANGED cancelled
         [] OTHER ->
              Die("failed", 1) /\ UNCHANGED <<hwframes, cancelled>>

frozenAbove(current, m) == m > 0 /\ current.Dup > m

\* if maxdup > 0 && current.Dup >= maxdup
frozen(current, m) == m > 0 /\ current.Dup >= m

stallNextAnyFrame(current, pri, n) ==
    IF current.Frame <= pri.Frame THEN n + 1 ELSE 0

\* the stall counter after a sample: nstall++ or nstall = 0
stallNext(current, pri, n) ==
    IF current.Frame <= pri.Frame /\ current.Frame # 0 THEN n + 1 ELSE 0

stalledAt(n, m) == m > 0 /\ n >= m

\* if maxstall > 0 && nstall > maxstall
stalled(n, m) == m > 0 /\ n > m

\* case current, more := <-statc, more == true
MainSample ==
    /\ Live
    /\ mainpc = "loop"
    /\ statc # <<>>
    /\ LET current == Head(statc)
           n == stallNext(current, prior, nstall)
       IN  /\ statc' = Tail(statc)
           /\ IF frozen(current, maxdup)
              THEN /\ cancelled' = TRUE
                   /\ logged' = Append(logged, "freeze")
                   /\ exited' = 1
                   /\ UNCHANGED <<prior, nstall>>
              ELSE /\ prior' = current
                   /\ nstall' = n
                   /\ IF stalled(n, maxstall)
                      THEN /\ cancelled' = TRUE
                           /\ logged' = Append(logged, "stall")
                           /\ exited' = 1
                      ELSE UNCHANGED <<cancelled, logged, exited>>
    /\ UNCHANGED <<cfgvars, decvars, decided, args, retry, hwframesptr, hwframes,
                   hwframesbug, vramoverflow, filterbug, gpuwarns, emitted, execpc,
                   execerr, wpos, s0, statcClosed, mainpc, parents,
                   childexit>>

\* case current, more := <-statc, more == false: statc = nil, the loop and
\* main end, the process exits with status 0
MainClosed ==
    /\ Live
    /\ mainpc = "loop"
    /\ statc = <<>>
    /\ statcClosed
    /\ mainpc' = "returned"
    /\ exited' = 0
    /\ UNCHANGED <<cfgvars, decvars, decided, args, retry, hwframesptr, hwframes,
                   hwframesbug, vramoverflow, filterbug, gpuwarns, emitted, execpc,
                   execerr, wpos, s0, statc, statcClosed, prior, nstall,
                   logged, cancelled, parents, childexit>>

\* case <-update.C: a status line is logged
Tick ==
    /\ Live
    /\ mainpc = "loop"
    /\ UNCHANGED vars

\* doretry() after c.Run() has returned: os.Exit(1) if the child failed,
\* os.Exit(0) otherwise
parentStatus(child) == IF child # 0 THEN 1 ELSE 0

ParentReturn ==
    /\ ~Live
    /\ parents # <<>>
    /\ childexit' = exited
    /\ exited' = parentStatus(exited)
    /\ parents' = SubSeq(parents, 1, Len(parents) - 1)
    /\ UNCHANGED <<cfgvars, decvars, procvars>>

Next ==
    \/ FfmpegWrite(SupLines, MaxLines)
    \/ FfmpegExit
    \/ StatwClose
    \/ WatchLine
    \/ WatchEOF
    \/ MainDone
    \/ MainSample
    \/ MainClosed
    \/ Tick
    \/ ParentReturn

Spec == Init /\ [][Next]_vars

-----------------------------------------------------------------------------
(* Steps of the completion handler, read off two successive states *)

LastLogged(l) == IF l = <<>> THEN "" ELSE l[Len(l)]

\* the handler of case err := <-donec runs in this step
DecisionStep ==
    /\ Live /\ mainpc = "loop" /\ execpc = "send"
    /\ \/ Len(parents') > Len(parents)
       \/ /\ Len(logged') = Len(logged) + 1
          /\ LastLogged(logged') \in {"done", "maxretry", "failed", "panic"}

\* ... and reports success; the loop goes on
DoneStep ==
    /\ LastLogged(logged') = "done" /\ Len(logged') = Len(logged) + 1
    /\ exited' = -1 /\ parents' = parents

\* ... and ends the process with a fatal summary, starting no child
FailedStep ==
    /\ LastLogged(logged') \in {"maxretry", "failed"}
    /\ Len(logged') = Len(logged) + 1
    /\ exited' = 1 /\ parents' = parents /\ args' = args

\* ... and starts a copy of this process (Retrying)
RetryStep ==
    /\ Len(parents') = Len(parents) + 1
    /\ parents' = Append(parents, Frame(parents'[Len(parents')].rule))
    /\ exited' = -1

TopFrame == parents[Len(parents)]

-----------------------------------------------------------------------------
(* C1 *)

\* C1 as stated: whenever the completion handler runs with the vram-overflow
\* flag set, a spent budget (retry >= maxretry) ends the run in Failed without
\* a re-execution, and otherwise the process re-executes itself with retry + 1
\* and the same arguments.
C1_AsStated ==
    [][ (DecisionStep /\ vramoverflow) =>
            IF retry >= maxretry
            THEN FailedStep
            ELSE RetryStep /\ retry' = retry + 1 /\ args' = args ]_vars

\* C1 amended: the same, for an exit handled as a failure (ffmpeg returned an
\* error, or an error line was found in the captured output); an exit without
\* error and without error line ends in Done whatever the flag.  Hence no
\* re-execution is started by a process whose vram-overflow flag is set and
\* whose retry counter is at or above the budget.
C1_VramRetryBudget ==
    [][ (DecisionStep /\ vramoverflow) =>
            IF ~execerr /\ lastline(emitted) = <<>>
            THEN DoneStep
            ELSE IF retry >= maxretry
            THEN FailedStep /\ LastLogged(logged') = "maxretry"
            ELSE /\ RetryStep /\ TopFrame'.rule = "vram"
                 /\ retry' = retry + 1 /\ args' = args ]_vars

\* a vram retry has happened and its child, the budget spent, has failed
C1_Witness ==
    /\ parents # <<>>
    /\ TopFrame.rule = "vram"
    /\ retry = TopFrame.retry + 1
    /\ retry >= maxretry
    /\ decided.taken /\ decided.vramoverflow
    /\ LastLogged(logged) = "maxretry"

-----------------------------------------------------------------------------
(* C2 *)

\* C2: whenever the completion handler runs for a failed exit with the
\* hardware-frames flag set and the vram-overflow flag clear, a tracked value
\* below the ceiling leads to a re-execution with the value after
\* -extra_hw_frames raised by one, and a value at or above the ceiling to
\* Failed.
C2_HwRetry ==
    [][ (DecisionStep /\ hwframesbug /\ ~vramoverflow
           /\ (execerr \/ lastline(emitted) # <<>>)) =>
            IF hwframes < hwframesmax
            THEN /\ RetryStep
                 /\ retry' = retry + 1
                 /\ hwframes' = hwframes + 1
            ELSE FailedStep ]_vars

-----------------------------------------------------------------------------
(* C3 *)

\* C3 as stated: the completion handler reports Done exactly when ffmpeg
\* returned no error, no error line was found and no condition flag is set.
C3_AsStated ==
    [][ DecisionStep =>
            (DoneStep <=> /\ ~execerr /\ lastline(emitted) = <<>>
                          /\ ~hwframesbug /\ ~vramoverflow) ]_vars

\* C3 amended: the completion handler reports Done exactly when ffmpeg
\* returned no error and no error line was found; the condition flags are not
\* consulted.
C3_DoneIffCleanExit ==
    [][ DecisionStep =>
            (DoneStep <=> (~execerr /\ lastline(emitted) = <<>>)) ]_vars

\* Done was reported by a handler that ran with a condition flag set
C3_Witness ==
    /\ decided.taken
    /\ ~decided.execerr /\ decided.lasterr = <<>>
    /\ decided.vramoverflow \/ decided.hwframesbug
    /\ logged = <<"done">>

-----------------------------------------------------------------------------
(* C4 *)

\* C4 as stated (the code has no strict mode, so strict mode is off): an exit
\* without error, with an error line found and all flags clear, does not end
\* in Failed and does not exit non-zero.
C4_AsStated ==
    [][ (DecisionStep /\ ~execerr /\ lastline(emitted) # <<>>
           /\ ~hwframesbug /\ ~vramoverflow) =>
            (~FailedStep /\ exited' \in {-1, 0}) ]_vars

\* C4 amended: an exit without error, with an error line found and all flags
\* clear, always ends in Failed with exit status 1.
C4_ErrorLineIsFatal ==
    [][ (DecisionStep /\ ~execerr /\ lastline(emitted) # <<>>
           /\ ~hwframesbug /\ ~vramoverflow) =>
            (FailedStep /\ LastLogged(logged') = "failed") ]_vars

C4_Witness ==
    /\ decided.taken
    /\ ~decided.execerr /\ decided.lasterr # <<>>
    /\ ~decided.vramoverflow /\ ~decided.hwframesbug
    /\ LastLogged(logged) = "failed"
    /\ exited = 1

-----------------------------------------------------------------------------
(* C6 *)

\* C6: every re-execution keeps the length of the argument vector; a
\* vram-overflow retry changes no argument, a hardware-frames retry changes at
\* most one position, which follows an -extra_hw_frames token.
C6_ArgsPreserved ==
    [][ Len(parents') > Len(parents) =>
            /\ Len(args') = Len(args)
            /\ TopFrame'.args = args
            /\ TopFrame'.rule \in {"vram", "hw"}
            /\ TopFrame'.rule = "vram" => args' = args
            /\ TopFrame'.rule = "hw" =>
                 \E p \in 2..Len(args) :
                     /\ args[p - 1] = HwFlag
                     /\ args'[p] = Sprint(Atoi(args[p]) + 1)
                     /\ \A q \in 1..Len(args) : q # p => args'[q] = args[q]
       ]_vars

\* a chain with a vram-overflow retry and a hardware-frames retry, the latter
\* having changed the argument vector
C6_Witness ==
    /\ \E i \in 1..Len(parents) : parents[i].rule = "vram"
    /\ parents # <<>> /\ TopFrame.rule = "hw" /\ TopFrame.args # args

-----------------------------------------------------------------------------
(* C7 *)

-----------------------------------------------------------------------------
(* The sampler on its own: watchState fed with any lines, nobody receiving *)

InitWatch ==
    /\ maxretry = orDefault(0, DefaultMaxretry)
    /\ hwframesmax = orDefault(0, DefaultHwframesmax)
    /\ maxstall = orDefault(0, DefaultMaxstall)
    /\ maxdup = 0
    /\ targetOutputs \in { orDefault(v, 1) : v \in {0, 2} }
    /\ gpus = 0
    /\ args = <<"ffmpeg-json", "-i", "in", "out">>
    /\ retry = 0
    /\ hwframesptr = scanPtr(args)
    /\ hwframes = scanHwframes(args)
    /\ hwframesbug = FALSE
    /\ vramoverflow = FALSE
    /\ filterbug = FALSE
    /\ gpuwarns = 0
    /\ emitted = <<>>
    /\ execpc = "copy"
    /\ execerr = FALSE
    /\ wpos = 0
    /\ s0 = ZeroState
    /\ statc = <<>>
    /\ statcClosed = FALSE
    /\ prior = ZeroState
    /\ nstall = 0
    /\ mainpc = "loop"
    /\ logged = <<>>
    /\ cancelled = FALSE
    /\ decided = Undecided
    /\ parents = <<>>
    /\ exited = -1
    /\ childexit = -1
    /\ dprev = ZeroState
    /\ dline = <<>>
    /\ dcur = ZeroState
    /\ dcalls = 0
    /\ tcall = NoTailCall
    /\ pcall = NoProgressCall

NextWatch ==
    \/ FfmpegWrite(WatchLines, MaxWatchLines)
    \/ WatchLine

SpecWatch == InitWatch /\ [][NextWatch]_vars

-----------------------------------------------------------------------------
(* Decode on its own: successive calls, each on the result of the one before *)

DecodeCall ==
    /\ dcalls < MaxDecodeCalls
    /\ \E ln \in DecodeLines :
          /\ dline' = ln
          /\ dprev' = dcur
          /\ dcur' = Decode(dcur, ln)
    /\ dcalls' = dcalls + 1
    /\ UNCHANGED <<cfgvars, procvars, parents, exited, childexit, tcall, pcall>>

NextDecode == DecodeCall

SpecDecode == InitWatch /\ [][NextDecode]_vars

-----------------------------------------------------------------------------
(* C8 *)

LastOrZero(q) == IF q = <<>> THEN ZeroState ELSE q[Len(q)]

\* C8: s0 is the sample emitted last (the zero sample before the first); a
\* line is emitted, as the sample it decodes into, exactly when that sample's
\* frame count exceeds the frame count of s0 or its size exceeds the size of
\* s0, and s0 becomes that sample; any other line is discarded and leaves s0
\* and the output alone.
C8_EmitIffAdvance ==
    [][ wpos' = wpos + 1 =>
            LET s1 == Decode(ZeroState, emitted[wpos + 1])
            IN  /\ s0 = LastOrZero(statc)
                /\ IF s1.Frame > s0.Frame \/ s1.Size > s0.Size
                   THEN statc' = Append(statc, s1) /\ s0' = s1
                   ELSE statc' = statc /\ s0' = s0 ]_vars

\* three lines read: one emitted for its frame count, one emitted for its size
\* alone, one discarded
C8_Witness ==
    /\ wpos = 3
    /\ Len(statc) = 2
    /\ statc[1].Frame > 0
    /\ statc[2].Frame <= statc[1].Frame
    /\ statc[2].Size > statc[1].Size

-----------------------------------------------------------------------------
(* C9 *)

\* C9: a Decode call on a line that starts neither with "frame=" nor with
\* "size=" returns the sample it was called on, every field unchanged.
C9_DecodeIdentity ==
    (dcalls > 0 /\ ~HasPrefix(dline, <<"frame", EQ>>)
                /\ ~HasPrefix(dline, <<"size", EQ>>))
        => dcur = dprev

\* Decode was called, with a multiplier of 2, on a sample with non-zero fps
\* and speed and on a line that holds "frame=" but not at its start
C9_Witness ==
    /\ dcalls > 0
    /\ dline = WBlankFirst
    /\ targetOutputs = 2
    /\ dprev.FPS > 0 /\ dprev.Speed > 0 /\ dprev.Frame # 3
    /\ dcur = dprev

-----------------------------------------------------------------------------
(* C10 *)

StateFields ==
    {"Frame", "FPS", "Q", "Time", "Size", "Bitrate", "Dup", "Drop", "Speed"}

\* the fields a recognised line holds a key for (the keys are the tokens at
\* the odd places of the demangled line that are followed by a value)
FieldsIn(line) ==
    LET a == split(demangle(line), SP)
    IN  { symtab(a[2 * k - 1][1]) :
            k \in { m \in 1..(Len(a) \div 2) : Len(a[2 * m - 1]) = 1 } }

\* C10 as stated: in an emitted sample every field whose key is absent from
\* the line has the value it had in the sample accepted last.
C10_AsStated ==
    [][ (wpos' = wpos + 1 /\ Len(statc') > Len(statc)) =>
            \A f \in StateFields \ FieldsIn(emitted[wpos + 1]) :
                LastOrZero(statc')[f] = s0[f] ]_vars

\* C10 amended: each line is decoded against the zero sample: in an emitted
\* sample every field whose key is absent from the line has its zero value,
\* whatever the sample accepted last held; a line that is not recognised
\* is never emitted and leaves the sample accepted last unchanged.
C10_DecodedAgainstZero ==
    [][ wpos' = wpos + 1 =>
            LET ln == emitted[wpos + 1]
            IN  /\ Len(statc') > Len(statc) =>
                      \A f \in StateFields \ FieldsIn(ln) :
                          LastOrZero(statc')[f] = ZeroState[f]
                /\ (~HasPrefix(ln, <<"frame", EQ>>)
                      /\ ~HasPrefix(ln, <<"size", EQ>>)) =>
                      (statc' = statc /\ s0' = s0) ]_vars

\* a sample with a size was accepted, then a line without a size key was
\* emitted with size zero, then a line that is not recognised was read
C10_Witness ==
    /\ wpos = 3
    /\ Len(statc) = 2
    /\ statc[1].Size > 0
    /\ "Size" \notin FieldsIn(emitted[2])
    /\ statc[2].Size = 0
    /\ ~Recognized(emitted[3])
    /\ s0 = statc[2]

-----------------------------------------------------------------------------
(* The filter-incompatibility rule.  src/main.go holds neither the flag nor  *)
(* the rule; both are modelled from the specification (sections 4.3, 4.5     *)
(* rule 3 and 4.6) and are used by SpecFilter only.  The signature text and  *)
(* the fragment are placeholders: the specification does not give them.      *)

FilterSignature == Words(<<"Impossible", "to", "convert", "between", "the", "formats">>)
LFilter == FilterSignature

BadFilter == "hwupload,bad_chain"
GoodFilter == "hwupload,good_chain"

HasBadFragment(a) == \E q \in 1..Len(a) : a[q] = BadFilter

\* the argument vector with the fragment rewritten
rewriteFilter(a) ==
    [q \in 1..Len(a) |-> IF a[q] = BadFilter THEN GoodFilter ELSE a[q]]

filterRuleBudget(bug, a) == bug /\ HasBadFragment(a) /\ retry < maxretry

\* rule 3: the flag is set and the command line holds the fragment
filterRule(bug, a) == bug /\ HasBadFragment(a)

FilterLines == {LProg, LFilter, LVram}

FilterArgVectors ==
    { <<"ffmpeg-json", "-i", "in", "-vf", BadFilter, "out">>,
      <<"ffmpeg-json", "-i", "in", "-vf", BadFilter, "o1", "-vf", BadFilter, "o2">>,
      <<"ffmpeg-json", "-i", "in", "-vf", GoodFilter, "out">> }

\* watchState with the filter signature test
WatchLineF ==
    /\ Live
    /\ wpos < Len(emitted)
    /\ LET ln == emitted[wpos + 1]
           s1 == watchDecode(s0, ln)
       IN  /\ hwframesbug' = setFlag(hwframesbug, hastext(ln, NoSurfaces))
           /\ vramoverflow' = setFlag(vramoverflow, gpuOOM(ln, gpus))
           /\ filterbug' = setFlag(filterbug, hastext(ln, FilterSignature))
           /\ gpuwarns' = gpuwarns + gpuOOMWarns(ln, gpus)
           /\ IF Skipped(s1, s0)
              THEN UNCHANGED <<statc, s0>>
              ELSE /\ Len(statc) < StatcCap
                   /\ statc' = Append(statc, s1)
                   /\ s0' = s1
    /\ wpos' = wpos + 1
    /\ UNCHANGED <<cfgvars, decvars, decided, args, retry, hwframesptr,
                   hwframes, emitted, execpc, execerr, statcClosed,
                   prior, nstall, mainpc, logged, cancelled, parents,
                   exited, childexit>>

\* the completion handler with rule 3 ahead of the rules of src/main.go
MainDoneF ==
    /\ Live
    /\ mainpc = "loop"
    /\ execpc = "send"
    /\ IF filterRule(filterbug, args)
       THEN doretry("filter", rewriteFilter(args))
       ELSE MainDone

InitFilter ==
    /\ maxretry = orDefault(1, DefaultMaxretry)
    /\ hwframesmax = orDefault(1, DefaultHwframesmax)
    /\ maxstall = orDefault(1, DefaultMaxstall)
    /\ maxdup = 0
    /\ targetOutputs = orDefault(0, 1)
    /\ gpus = 0
    /\ args \in FilterArgVectors
    /\ retry \in 0..MaxRetryEnv
    /\ hwframesptr = scanPtr(args)
    /\ hwframes = scanHwframes(args)
    /\ hwframesbug = FALSE
    /\ vramoverflow = FALSE
    /\ filterbug = FALSE
    /\ gpuwarns = 0
    /\ emitted = <<>>
    /\ execpc = "copy"
    /\ execerr = FALSE
    /\ wpos = 0
    /\ s0 = ZeroState
    /\ statc = <<>>
    /\ statcClosed = FALSE
    /\ prior = ZeroState
    /\ nstall = 0
    /\ mainpc = "loop"
    /\ logged = <<>>
    /\ cancelled = FALSE
    /\ decided = Undecided
    /\ parents = <<>>
    /\ exited = -1
    /\ childexit = -1
    /\ dprev = ZeroState
    /\ dline = <<>>
    /\ dcur = ZeroState
    /\ dcalls = 0
    /\ tcall = NoTailCall
    /\ pcall = NoProgressCall

NextFilter ==
    \/ FfmpegWrite(FilterLines, MaxLines)
    \/ FfmpegExit
    \/ StatwClose
    \/ WatchLineF
    \/ WatchEOF
    \/ MainDoneF
    \/ MainSample
    \/ MainClosed
    \/ Tick
    \/ ParentReturn

SpecFilter == InitFilter /\ [][NextFilter]_vars

-----------------------------------------------------------------------------
(* C5 *)

-----------------------------------------------------------------------------
(* The supervising loop fed with progress lines of every kind: stall and     *)
(* freeze detection.  No line carries a condition-flag signature, so no      *)
(* process is re-executed.                                                   *)

MaxLoopLines == 3    \* lines ffmpeg writes in a run of SpecLoop

WSize3 == KV("frame", "1") \o <<SP>> \o KV("size", "3")
WDup == KV("frame", "2") \o <<SP>> \o KV("size", "2") \o <<SP>> \o KV("dup", "1")

LoopLines == {LProg, WSize2, WSize3, WSizeOnly, WFrame2, WDup}

\* MAXSTALL and MAXDUP as the environment may give them (strconv.Atoi keeps
\* a sign)
StallEnv == {-1, 1}
DupEnv == {-1, 0, 1}

InitLoop ==
    /\ maxretry = orDefault(0, DefaultMaxretry)
    /\ hwframesmax = orDefault(0, DefaultHwframesmax)
    /\ maxstall \in { orDefault(v, DefaultMaxstall) : v \in StallEnv }
    /\ maxdup \in DupEnv
    /\ targetOutputs = orDefault(0, 1)
    /\ gpus = 0
    /\ args = <<"ffmpeg-json", "-i", "in", "out">>
    /\ retry = 0
    /\ hwframesptr = scanPtr(args)
    /\ hwframes = scanHwframes(args)
    /\ hwframesbug = FALSE
    /\ vramoverflow = FALSE
    /\ filterbug = FALSE
    /\ gpuwarns = 0
    /\ emitted = <<>>
    /\ execpc = "copy"
    /\ execerr = FALSE
    /\ wpos = 0
    /\ s0 = ZeroState
    /\ statc = <<>>
    /\ statcClosed = FALSE
    /\ prior = ZeroState
    /\ nstall = 0
    /\ mainpc = "loop"
    /\ logged = <<>>
    /\ cancelled = FALSE
    /\ decided = Undecided
    /\ parents = <<>>
    /\ exited = -1
    /\ childexit = -1
    /\ dprev = ZeroState
    /\ dline = <<>>
    /\ dcur = ZeroState
    /\ dcalls = 0
    /\ tcall = NoTailCall
    /\ pcall = NoProgressCall

NextLoop ==
    \/ FfmpegWrite(LoopLines, MaxLoopLines)
    \/ FfmpegExit
    \/ StatwClose
    \/ WatchLine
    \/ WatchEOF
    \/ MainDone
    \/ MainSample
    \/ MainClosed
    \/ Tick

SpecLoop == InitLoop /\ [][NextLoop]_vars

\* the loop receives a sample in this step
SampleStep ==
    /\ Live /\ mainpc = "loop"
    /\ statc # <<>> /\ statc' = Tail(statc)

\* ... and ends the run as a freeze
FreezeStep ==
    /\ Len(logged') = Len(logged) + 1 /\ LastLogged(logged') = "freeze"

\* ... and ends the run as a stall
StallStep ==
    /\ Len(logged') = Len(logged) + 1 /\ LastLogged(logged') = "stall"

-----------------------------------------------------------------------------
(* C11 *)

\* C11: for every sample the loop receives and does not end the run on as a
\* freeze, the stall counter becomes nstall + 1 when sample.frame <=
\* prior.frame and sample.frame # 0, and 0 otherwise, and the sample becomes
\* prior; prior starts as the zero sample and the counter at 0.
C11_StallCounter ==
    [][ (SampleStep /\ ~FreezeStep) =>
            /\ nstall' = IF Head(statc).Frame <= prior.Frame /\ Head(statc).Frame # 0
                         THEN nstall + 1 ELSE 0
            /\ prior' = Head(statc)
            /\ Head(statc).Frame > prior.Frame => nstall' = 0 ]_vars

\* the counter was incremented twice in a row
C11_Witness ==
    /\ nstall = 2
    /\ prior.Frame = 1 /\ prior.Size = 3

-----------------------------------------------------------------------------
(* C12 *)

\* C12 as stated: a received sample (not ending the run as a freeze) ends the
\* run as a stall exactly when the counter, updated for it, exceeds maxstall;
\* a stall cancels the subprocess, ends the process with a fatal line and
\* starts no re-execution.
C12_AsStated ==
    [][ /\ (SampleStep /\ ~FreezeStep) => (StallStep <=> nstall' > maxstall)
        /\ StallStep =>
              /\ SampleStep
              /\ cancelled' /\ exited' = 1 /\ parents' = parents ]_vars

\* C12 amended: the same for a positive threshold; with a negative threshold
\* (MAXSTALL < 0; 0 stands for the default of 1000) no stall is ever declared.
C12_StallBeyondThreshold ==
    [][ /\ (SampleStep /\ ~FreezeStep) =>
              (StallStep <=> (maxstall > 0 /\ nstall' > maxstall))
        /\ StallStep =>
              /\ SampleStep
              /\ cancelled' /\ exited' = 1 /\ parents' = parents ]_vars

\* a run ended as a stall by the first sample that took the counter beyond
\* the threshold
C12_Witness ==
    /\ LastLogged(logged) = "stall"
    /\ nstall = maxstall + 1
    /\ cancelled /\ exited = 1 /\ parents = <<>>

-----------------------------------------------------------------------------
(* C13 *)

-----------------------------------------------------------------------------
(* lastline on its own: called on captured outputs that grow line by line *)

MaxTailLines == 3    \* lines of a captured output lastline is called on

TLower == Words(<<"error", "while", "decoding">>)
TOpen == Words(<<"Impossible", "to", "open", "in.mp4">>)
TOpenBare == Words(<<"Impossible", "to", "open">>)
TInvalid == Words(<<"in.mp4:", "Invalid", "data", "found", "when", "processing", "input">>)
TInvalidBare == Words(<<"Invalid", "data", "found", "when", "processing", "input">>)
TNoStream == Words(<<"Stream", "map", "0:1", "matches", "no", "stream">>)
TInner == Words(<<"No", "Error", "here">>)

TailLines ==
    {LProg, LErr, TLower, TOpen, TOpenBare, TInvalid, TInvalidBare, TNoStream,
     TInner}

TailCall ==
    /\ Len(tcall.captured) < MaxTailLines
    /\ \E ln \in TailLines :
          LET c == Append(tcall.captured, ln)
          IN  tcall' = [made |-> TRUE, captured |-> c, msg |-> lastline(c)]
    /\ UNCHANGED <<cfgvars, procvars, parents, exited, childexit,
                   dprev, dline, dcur, dcalls, pcall>>

NextTail == TailCall

SpecTail == InitWatch /\ [][NextTail]_vars

-----------------------------------------------------------------------------
(* C14 *)

-----------------------------------------------------------------------------
(* The condition flags: watchState fed with lines that carry signatures, on  *)
(* hosts with and without GPUs                                                *)

MaxFlagLines == 3    \* lines fed to the sampler in SpecFlags
MaxGpus == 1         \* largest number of GPUs queryGPU lists

LNoDevice == Words(<<"cuInit", "failed:", "CUDA_ERROR_NO_DEVICE">>)
LNvenc == Words(<<"h264_nvenc", "OpenEncodeSessionEx", "failed">>)
LNvencMem == Words(<<"h264_nvenc", "ran", "out", "of", "memory">>)
LMemOnly == Words(<<"malloc:", "out", "of", "memory">>)

FlagLines == {LProg, LHw, LVram, LNoDevice, LNvenc, LNvencMem, LMemOnly}

InitFlags ==
    /\ maxretry = orDefault(0, DefaultMaxretry)
    /\ hwframesmax = orDefault(0, DefaultHwframesmax)
    /\ maxstall = orDefault(0, DefaultMaxstall)
    /\ maxdup = 0
    /\ targetOutputs = orDefault(0, 1)
    /\ gpus \in 0..MaxGpus
    /\ args = <<"ffmpeg-json", "-i", "in", "out">>
    /\ retry = 0
    /\ hwframesptr = scanPtr(args)
    /\ hwframes = scanHwframes(args)
    /\ hwframesbug = FALSE
    /\ vramoverflow = FALSE
    /\ filterbug = FALSE
    /\ gpuwarns = 0
    /\ emitted = <<>>
    /\ execpc = "copy"
    /\ execerr = FALSE
    /\ wpos = 0
    /\ s0 = ZeroState
    /\ statc = <<>>
    /\ statcClosed = FALSE
    /\ prior = ZeroState
    /\ nstall = 0
    /\ mainpc = "loop"
    /\ logged = <<>>
    /\ cancelled = FALSE
    /\ decided = Undecided
    /\ parents = <<>>
    /\ exited = -1
    /\ childexit = -1
    /\ dprev = ZeroState
    /\ dline = <<>>
    /\ dcur = ZeroState
    /\ dcalls = 0
    /\ tcall = NoTailCall
    /\ pcall = NoProgressCall

NextFlags ==
    \/ FfmpegWrite(FlagLines, MaxFlagLines)
    \/ WatchLine

SpecFlags == InitFlags /\ [][NextFlags]_vars

\* the line carries the hardware-frames signature
HwSignature(ln) == hastext(ln, Words(<<"No", "decoder", "surfaces", "left">>))

\* the line carries a vram-overflow signature
VramSignature(ln) ==
    \/ hastext(ln, <<"nvenc">>)
         /\ \/ hastext(ln, Words(<<"OpenEncodeSessionEx", "failed">>))
            \/ hastext(ln, Words(<<"out", "of", "memory">>))
    \/ hastext(ln, <<"CUDA_ERROR_OUT_OF_MEMORY">>)
    \/ hastext(ln, <<"CUDA_ERROR_NO_DEVICE">>) /\ gpus # 0

-----------------------------------------------------------------------------
(* C15 *)

\* C15 as stated: the flags are false before the first line is read; reading
\* a line sets a flag when the line carries its signature and leaves it alone
\* otherwise, so a flag that is true stays true; and a line read when the
\* vram-overflow flag is already true has no effect on account of the flag:
\* in particular it logs nothing.
C15_AsStated ==
    /\ (wpos = 0 => (~hwframesbug /\ ~vramoverflow))
    /\ [][ wpos' = wpos + 1 =>
              LET ln == emitted[wpos + 1]
              IN  /\ hwframesbug' = (hwframesbug \/ HwSignature(ln))
                  /\ vramoverflow' = (vramoverflow \/ VramSignature(ln))
                  /\ vramoverflow => gpuwarns' = gpuwarns ]_vars

\* C15 amended: the flags are false before the first line is read; reading a
\* line sets a flag when the line carries its signature and leaves it alone
\* otherwise, so a flag that is true stays true; every line that carries a
\* vram-overflow signature, the first and each later one, logs one warning
\* for every GPU the host lists, and no other line logs any.
C15_StickyFlags ==
    /\ (wpos = 0 => (~hwframesbug /\ ~vramoverflow))
    /\ [][ wpos' = wpos + 1 =>
              LET ln == emitted[wpos + 1]
              IN  /\ hwframesbug' = (hwframesbug \/ HwSignature(ln))
                  /\ vramoverflow' = (vramoverflow \/ VramSignature(ln))
                  /\ gpuwarns' = gpuwarns + (IF VramSignature(ln) THEN gpus ELSE 0)
          ]_vars

\* both flags were set, a line without signature was read after that and left
\* them set; the vram-overflow line was read twice on a host with a GPU
C15_Witness ==
    /\ wpos = 3
    /\ emitted = <<LVram, LVram, LProg>>
    /\ vramoverflow /\ ~hwframesbug
    /\ gpus = 1 /\ gpuwarns = 2

-----------------------------------------------------------------------------
(* C16 *)

\* C16: whenever the completion handler runs, the flag of every signature
\* carried by a line the subprocess has written is already true.
C16_FlagsSeenAtDecision ==
    [][ DecisionStep =>
            \A i \in 1..Len(emitted) :
                /\ HwSignature(emitted[i]) => hwframesbug
                /\ VramSignature(emitted[i]) => vramoverflow ]_vars

-----------------------------------------------------------------------------
(* C17 *)

\* C17: once Done has been reported nothing else is reported in that run and
\* the process does not end with a non-zero status; a process that ended with
\* a non-zero status reported a failure as its only outcome.
C17_SingleOutcome ==
    /\ (\E i \in 1..Len(logged) : logged[i] = "done") =>
           (logged = <<"done">> /\ exited \in {-1, 0})
    /\ exited \notin {-1, 0} =>
           (Len(logged) = 1 /\ logged[1] \in {"failed", "maxretry", "stall", "freeze"})

-----------------------------------------------------------------------------
(* State.Progress and progress on their own *)

\* Time.Duration, in whole seconds: fmt.Sscanf(t, "%f:%f:%f") and
\* 3600*h + 60*m + s; 0 for a text that does not scan
TimeSeconds(t) ==
    CASE t = "00:00:01.00" -> 1
      [] t = "00:00:10.00" -> 10
      [] t = "00:00:30.00" -> 30
      [] OTHER -> 0

\* the largest int, which a conversion of +Inf may give
IntMax == 2147483647

\* a float64 quotient a / b, in hundredths: <<"num", h>>, or <<"inf">> for a
\* non-zero value over zero, or <<"nan">> for zero over zero
Quotient(a, b) ==
    IF b # 0 THEN <<"num", (a * 100) \div b>>
    ELSE IF a # 0 THEN <<"inf">> ELSE <<"nan">>

\* State.Progress(max, frames); max in seconds
Progress(s, max, frames) ==
    IF max # 0 THEN Quotient(TimeSeconds(s.Time), max)
    ELSE Quotient(s.Frame, frames)

\* progress: the values perc = int(Progress * 100), clamped below at 0, can
\* take; the conversion of +Inf or NaN to int is implementation-dependent
progress(p) ==
    IF p[1] = "num" THEN { IF p[2] < 0 THEN 0 ELSE p[2] }
    ELSE {0, IntMax}

ProgressFrames == {0, 1, 3, 50, 100}
ProgressTimes == {"", "00:00:01.00", "00:00:10.00", "00:00:30.00"}
DurTargets == {0, 10, 20}
FrameTargets == {0, 2, 100}

ProgressCall ==
    /\ \E f \in ProgressFrames, t \in ProgressTimes,
          max \in DurTargets, frames \in FrameTargets :
          LET s == [ZeroState EXCEPT !.Frame = f, !.Time = t]
              p == Progress(s, max, frames)
          IN  \E perc \in progress(p) :
                 pcall' = [made |-> TRUE, s |-> s, max |-> max,
                           frames |-> frames, prog |-> p, perc |-> perc]
    /\ UNCHANGED <<cfgvars, procvars, parents, exited, childexit,
                   dprev, dline, dcur, dcalls, tcall>>

NextProgress == ProgressCall

SpecProgress == InitWatch /\ [][NextProgress]_vars

-----------------------------------------------------------------------------
(* C18 *)

\* C18: every Progress call returns a number between 0 and 1 (0 and 100 in
\* hundredths), and the percentage reported for it lies in 0..100.
C18_ProgressInUnitInterval ==
    pcall.made =>
        /\ pcall.prog[1] = "num"
        /\ pcall.prog[2] >= 0 /\ pcall.prog[2] <= 100
        /\ pcall.perc >= 0 /\ pcall.perc <= 100

-----------------------------------------------------------------------------
(* C19 *)

\* C19: whenever the completion handler runs for a failing exit with the
\* vram-overflow flag and the hardware-frames flag both set, the vram rule
\* decides: with the budget spent the run ends in Failed, otherwise the
\* process is re-executed with the same arguments; either way the tracked
\* extra_hw_frames value is not incremented.
C19_VramRuleFirst ==
    [][ (DecisionStep /\ vramoverflow /\ hwframesbug
           /\ (execerr \/ lastline(emitted) # <<>>)) =>
            /\ hwframes' = hwframes
            /\ IF retry >= maxretry
               THEN FailedStep /\ LastLogged(logged') = "maxretry"
               ELSE /\ RetryStep
                    /\ TopFrame'.rule = "vram"
                    /\ TopFrame'.hwframes = hwframes
                    /\ args' = args ]_vars

\* a process ended by the vram rule with both flags set, in which the
\* hardware-frames rule would have fired had it been tried first
C19_Witness ==
    /\ decided.taken
    /\ decided.vramoverflow /\ decided.hwframesbug
    /\ LastLogged(logged) = "maxretry"
    /\ hwframesptr # 0 /\ hwframes < hwframesmax
    /\ args[hwframesptr] = Sprint(hwframes)

-----------------------------------------------------------------------------
(* The chain of processes under the scheduling the claim assumes: every      *)
(* subprocess eventually exits (ffmpeg() returns and sends on donec), and    *)
(* the select of the supervising loop eventually takes the donec case while  *)
(* the send is pending                                                       *)

MaxChainLines == 1   \* lines one ffmpeg run of the chain writes

NextChain ==
    \/ FfmpegWrite(SupLines, MaxChainLines)
    \/ FfmpegExit
    \/ StatwClose
    \/ WatchLine
    \/ WatchEOF
    \/ MainDone
    \/ MainSample
    \/ MainClosed
    \/ Tick
    \/ ParentReturn

SpecChain ==
    /\ Init
    /\ [][NextChain]_vars
    /\ WF_vars(FfmpegExit)
    /\ WF_vars(MainDone)

\* the process now running has logged its summary: "done", or the fatal line
\* (or the panic) it ended with
ChainSettled == logged # <<>>

\* n when it is positive, 0 otherwise
Pos(n) == IF n > 0 THEN n ELSE 0

-----------------------------------------------------------------------------
(* C20 *)

-----------------------------------------------------------------------------
(* The supervising loop and the scanner's token limit.  bufio.Scanner gives  *)
(* up on a line of MaxScanTokenSize bytes or more: sc.Scan() returns false,  *)
(* the for loop of watchState ends and the deferred close(state) runs,       *)
(* whether or not the writing end of the pipe has been closed.               *)

MaxDrainLines == 2   \* lines ffmpeg writes in a run of SpecDrain

\* bufio.MaxScanTokenSize
MaxScanTokenSize == 65536

\* a run of bytes without a carriage return or a line feed, as long as the
\* scanner's buffer may grow
Blob == "blob"

\* the size of a lexeme in bytes, the blob apart taken as 1
LexBytes(w) == IF w = Blob THEN MaxScanTokenSize ELSE 1

RECURSIVE LineBytes(_)
LineBytes(line) ==
    IF line = <<>> THEN 0 ELSE LexBytes(Head(line)) + LineBytes(Tail(line))

\* bufio.ErrTooLong: the line does not fit the scanner's buffer
tooLong(line) == LineBytes(line) >= MaxScanTokenSize

LLong == <<Blob>>

DrainLines == {LProg, WSize2, WDup, LErr, LLong}

\* sc.Scan() returns true: one pass of the loop body of watchState
WatchScan ==
    /\ ~statcClosed
    /\ wpos < Len(emitted)
    /\ ~tooLong(emitted[wpos + 1])
    /\ WatchLine

\* sc.Scan() returns false on a line that is too long: defer close(state)
WatchScanErr ==
    /\ Live
    /\ ~statcClosed
    /\ wpos < Len(emitted)
    /\ tooLong(emitted[wpos + 1])
    /\ statcClosed' = TRUE
    /\ UNCHANGED <<cfgvars, decvars, decided, args, retry, hwframesptr, hwframes,
                   hwframesbug, vramoverflow, filterbug, gpuwarns, emitted, execpc,
                   execerr, wpos, s0, statc, prior, nstall, mainpc, logged,
                   cancelled, parents, exited, childexit>>

NextDrain ==
    \/ FfmpegWrite(DrainLines, MaxDrainLines)
    \/ FfmpegExit
    \/ StatwClose
    \/ WatchScan
    \/ WatchScanErr
    \/ WatchEOF
    \/ MainDone
    \/ MainSample
    \/ MainClosed
    \/ Tick

\* the watching task moves on to the next line: every step of NextDrain that
\* advances wpos is a step of WatchScan
WatchAdvance ==
    /\ Live
    /\ ~statcClosed
    /\ wpos < Len(emitted)
    /\ ~tooLong(emitted[wpos + 1])
    /\ wpos' = wpos + 1
    /\ UNCHANGED <<cfgvars, decvars, decided, args, retry, hwframesptr, hwframes,
                   filterbug, emitted, execpc, execerr, statcClosed,
                   prior, nstall, mainpc, logged, cancelled, parents,
                   exited, childexit>>
    /\ hwframesbug' \in BOOLEAN
    /\ vramoverflow' \in BOOLEAN
    /\ gpuwarns' \in {gpuwarns, gpuwarns + gpus}
    /\ \/ UNCHANGED <<statc, s0>>
       \/ statc' = Append(statc, s0')

\* every goroutine that can take a step eventually takes one, and the select
\* of the supervising loop eventually takes each case that stays ready
SpecDrain ==
    /\ InitLoop
    /\ [][NextDrain]_vars
    /\ WF_vars(FfmpegExit)
    /\ WF_vars(StatwClose)
    /\ WF_vars(WatchAdvance)
    /\ WF_vars(WatchScanErr)
    /\ WF_vars(WatchEOF)
    /\ WF_vars(MainDone)
    /\ WF_vars(MainSample)
    /\ WF_vars(MainClosed)

\* the loop has ended: statc was seen closed and main has returned
LoopEnded == mainpc = "returned"

\* the run was ended by the stall or the freeze line
EndedByStallOrFreeze == ~Live /\ LastLogged(logged) \in {"stall", "freeze"}

-----------------------------------------------------------------------------
(* C21 *)

\* C21: the supervising loop never ends without having handled the
\* completion event: statc is seen closed only after the donec case has run;
\* every run that has ended, and not by stall or freeze, has taken the exit
\* decision; the decision is never open again once taken; and after a Done
\* decision the run eventually ends.
C21_LoopEndsAfterCompletion ==
    /\ [](LoopEnded => decided.taken)
    /\ [](~Live /\ ~EndedByStallOrFreeze => decided.taken)
    /\ [][decided.taken => ~DecisionStep]_vars
    /\ (decided.taken /\ Live) ~> ~Live

-----------------------------------------------------------------------------
(* C22 *)

\* C22: the hardware-frames rule changes the argument vector only when an
\* -extra_hw_frames argument was found on the command line; when the exit is
\* handled as a failure with the hardware-frames flag set (the vram rule not
\* applying) and no such argument was found, nothing is written through the
\* unset reference: the run ends in Failed with the "failed" summary and no
\* process is started.
C22_NoWriteThroughUnsetReference ==
    [][ /\ (DecisionStep /\ hwframesptr = 0 => args' = args)
        /\ (DecisionStep /\ exitErr /\ ~vramoverflow /\ hwframesbug
              /\ hwframesptr = 0
            => /\ FailedStep
               /\ LastLogged(logged') = "failed"
               /\ hwframes' = hwframes) ]_vars

====
